---- MODULE Spec2Model ----
(***************************************************************************)
(* A model of src/Img_stitching2.py: the VideMosaic class (construction,   *)
(* matching, per-frame processing, motion classification, warp and merge)  *)
(* and the part of main() that drives it.                                  *)
(*                                                                         *)
(* Conventions.  Python None is the empty sequence << >> wherever the      *)
(* value is otherwise a sequence (descriptors, matrices, match lists).     *)
(* Images are sequences of rows, a row a sequence of pixels, a pixel a     *)
(* sequence of channel samples; TLA+ sequences are 1-based, so the pixel   *)
(* numpy calls img[r, c] is img[r+1][c+1] here.  Keypoint coordinates and  *)
(* transforms use the 0-based (x, y) = (column, row) of OpenCV.  Floats    *)
(* are modelled by exact integers or integer ratios.                       *)
(***************************************************************************)
EXTENDS Integers, Sequences, FiniteSets, TLC

VARIABLES
    status,        \* position of main(): "uninit", "running", "finished", "raised"
    detector_type, \* self.detector_type
    frame_prev, kp_prev, des_prev,   \* self.frame_prev, self.kp_prev, self.des_prev
    frame_cur, kp_cur, des_cur,      \* self.frame_cur, self.kp_cur, self.des_cur
    output_img,    \* self.output_img (the canvas)
    w_offset, h_offset,              \* self.w_offset, self.h_offset
    H_old,         \* self.H_old (the cumulative pose)
    H,             \* self.H
    matches,       \* the local `matches` of the last process_frame / match call
    warped_img,    \* the local `warped_img` of the last warp call
    last_warp,     \* which resampling call the last warp made
    motion,        \* the message findHomography printed last
    estimator,     \* the fit findHomography called last
    exc,           \* the exception that left the last call, if any
    args,          \* history: the arguments of the call being modelled
    log            \* history: one entry per frame handed to process_frame

vars == <<status, detector_type, frame_prev, kp_prev, des_prev, frame_cur, kp_cur,
          des_cur, output_img, w_offset, h_offset, H_old, H, matches, warped_img,
          last_warp, motion, estimator, exc, args, log>>

----------------------------------------------------------------------------
(* Bounds of the model *)

\* frames handed to process_frame in one run
MaxFrames == 3
\* longest descriptor list handed to match() in SpecMatch
MaxMatchLen == 32
\* largest |coordinate| of a keypoint handed to findHomography in SpecEstimate
MaxCoord == 10
\* largest first-frame height and width in SpecSeed
MaxDim == 3

(* Program constants *)

\* [:30] in match
MatchCountCap == 30
\* len(matches) < 4 in process_frame
MinMatches == 4
\* m.distance < 0.7 * n.distance, as RatioNum / RatioDen
RatioNum == 7
RatioDen == 10
\* abs(dx) > abs(dy) * 1.5, as MotionNum / MotionDen
MotionNum == 3
MotionDen == 2
\* multipliers are given in tenths: output_width_times = 1.2 is 12
Tenths == 10
\* defaults of __init__: output_height_times = 3, output_width_times = 1.2
DefaultHeightTimes == 30
DefaultWidthTimes == 12

----------------------------------------------------------------------------
(* Arithmetic helpers *)

Abs(x) == IF x < 0 THEN -x ELSE x

Min(a, b) == IF a <= b THEN a ELSE b

\* Python's int() of the real a / b, b > 0: truncation toward zero
TruncDiv(a, b) == IF a >= 0 THEN a \div b ELSE -((-a) \div b)

RECURSIVE SumSeq(_)
SumSeq(s) == IF s = <<>> THEN 0 ELSE Head(s) + SumSeq(Tail(s))

----------------------------------------------------------------------------
(* Matrices (numpy arrays of rank 2) as sequences of rows *)

Shape(M) == IF M = <<>> THEN <<0, 0>> ELSE <<Len(M), Len(M[1])>>

\* np.eye(3)
Eye3 == <<<<1, 0, 0>>, <<0, 1, 0>>, <<0, 0, 1>>>>

\* a function on 1..n as the tuple of its values
Tup(f) == SubSeq(f, 1, Len(f))

\* np.matmul(A, B) for conforming shapes
MatMul(A, B) ==
    Tup([i \in 1..Len(A) |->
            Tup([j \in 1..Len(B[1]) |->
                    SumSeq([k \in 1..Len(B) |-> A[i][k] * B[k][j]])])])

\* np.matmul raises ValueError when the inner dimensions differ
MatMulConforms(A, B) == Shape(A)[2] = Shape(B)[1]

Translation(tx, ty) == <<<<1, 0, tx>>, <<0, 1, ty>>, <<0, 0, 1>>>>

----------------------------------------------------------------------------
(* Frames.  A frame is its pixels together with what the detector finds in *)
(* it: detectAndCompute is a deterministic function of the frame, so the   *)
(* keypoints (x, y) and the descriptors (modelled as integers, with        *)
(* distance |a - b|) are carried by the frame record.                      *)

\* a 2 x 2 image of 3 channels, every pixel p
Uniform2x2(p) == <<<<p, p>>, <<p, p>>>>

\* the frames of a run: id 1..6
\*   1: four keypoints            2: the same four, displaced horizontally
\*   3: four keypoints, displaced vertically, three of whose descriptors are
\*      ambiguous (fail the ratio test against frame 1)
\*   4: three keypoints           5: no keypoint            6: one keypoint
TestFrame(id) ==
    CASE id = 1 -> [id |-> 1, img |-> Uniform2x2(<<10, 20, 30>>),
                    kp |-> <<<<0, 0>>, <<1, 0>>, <<0, 1>>, <<1, 1>>>>,
                    des |-> <<10, 30, 50, 70>>]
      [] id = 2 -> [id |-> 2, img |-> <<<<<<0, 0, 255>>, <<5, 5, 5>>>>,
                                        <<<<0, 0, 0>>, <<7, 0, 7>>>>>>,
                    kp |-> <<<<0, 0>>, <<0, 0>>, <<0, 1>>, <<0, 1>>>>,
                    des |-> <<10, 30, 50, 70>>]
      [] id = 3 -> [id |-> 3, img |-> Uniform2x2(<<3, 3, 3>>),
                    kp |-> <<<<0, 0>>, <<1, 0>>, <<0, 0>>, <<1, 0>>>>,
                    des |-> <<19, 39, 59, 79>>]
      [] id = 4 -> [id |-> 4, img |-> Uniform2x2(<<4, 4, 4>>),
                    kp |-> <<<<0, 0>>, <<1, 0>>, <<0, 1>>>>,
                    des |-> <<10, 30, 50>>]
      [] id = 5 -> [id |-> 5, img |-> Uniform2x2(<<0, 0, 0>>),
                    kp |-> <<>>, des |-> <<>>]
      [] OTHER  -> [id |-> 6, img |-> Uniform2x2(<<6, 6, 6>>),
                    kp |-> <<<<1, 1>>>>, des |-> <<10>>]

\* the frames main() may read first, and after the first
FirstFrames == {TestFrame(1), TestFrame(5), TestFrame(6)}
NextFrames == {TestFrame(i) : i \in 1..5}

NoFrame == [id |-> 0, img |-> <<>>, kp |-> <<>>, des |-> <<>>]

\* self.detector.detectAndCompute(gray, None): des is None when kp is empty
detectAndCompute(frame) == [kp |-> frame.kp, des |-> frame.des]

----------------------------------------------------------------------------
(* Exceptions *)

NoExc == [type |-> "none", args |-> ""]
Raise(type, msg) == [type |-> type, args |-> msg]

----------------------------------------------------------------------------
(* Matching.  A match is [queryIdx, trainIdx, distance]; the indices are   *)
(* 1-based here (0-based in OpenCV).                                       *)

Dist(a, b) == Abs(a - b)

DMatch(i, j, q, t) == [queryIdx |-> i, trainIdx |-> j, distance |-> Dist(q[i], t[j])]

\* the train index nearest to descriptor d among those not in excl
\* (the lower index on a tie)
Nearest(d, t, excl) ==
    CHOOSE j \in (1..Len(t)) \ excl :
        \A j2 \in (1..Len(t)) \ excl :
            \/ Dist(d, t[j]) < Dist(d, t[j2])
            \/ (Dist(d, t[j]) = Dist(d, t[j2]) /\ j <= j2)

\* self.bf.knnMatch(q, t, k=2) for non-empty q and t: per query descriptor
\* its two nearest train descriptors, or one when t has a single row
knnMatch(q, t) ==
    [i \in 1..Len(q) |->
        LET j1 == Nearest(q[i], t, {})
        IN  IF Len(t) = 1 THEN <<DMatch(i, j1, q, t)>>
            ELSE <<DMatch(i, j1, q, t), DMatch(i, Nearest(q[i], t, {j1}), q, t)>>]

\* the ratio test of the list comprehension
RatioTest(m, n) == RatioDen * m.distance < RatioNum * n.distance

RECURSIVE FilterPairs(_)
FilterPairs(pairs) ==
    IF pairs = <<>> THEN <<>>
    ELSE LET p == Head(pairs)
         IN  (IF RatioTest(p[1], p[2]) THEN <<p[1]>> ELSE <<>>) \o FilterPairs(Tail(pairs))

\* self.bf.match(q, t) of BFMatcher(crossCheck=True) for non-empty q and t:
\* a query's nearest train descriptor, kept when the query is that train
\* descriptor's nearest too
RECURSIVE CrossCheckFrom(_, _, _)
CrossCheckFrom(i, q, t) ==
    IF i > Len(q) THEN <<>>
    ELSE LET j == Nearest(q[i], t, {})
         IN  (IF Nearest(t[j], q, {}) = i THEN <<DMatch(i, j, q, t)>> ELSE <<>>)
             \o CrossCheckFrom(i + 1, q, t)

bfMatch(q, t) == CrossCheckFrom(1, q, t)

\* sorted(matches, key=lambda x: x.distance): a stable sort
RECURSIVE InsertSorted(_, _)
InsertSorted(x, s) ==
    IF s = <<>> THEN <<x>>
    ELSE IF Head(s).distance <= x.distance
         THEN <<Head(s)>> \o InsertSorted(x, Tail(s))
         ELSE <<x>> \o s

RECURSIVE SortFrom(_, _)
SortFrom(s, acc) ==
    IF s = <<>> THEN acc ELSE SortFrom(Tail(s), InsertSorted(Head(s), acc))

sorted(s) == SortFrom(s, <<>>)

\* sorted(matches, key=...)[:30]
SortTruncateFirst(ms) == sorted(SubSeq(ms, 1, Min(Len(ms), MatchCountCap)))

SortTruncate(ms) ==
    LET s == sorted(ms) IN SubSeq(s, 1, Min(Len(s), MatchCountCap))

\* lines 52-56 of match: the outcomes of the matcher call and of the list
\* comprehension, before sorting.  The matcher returns no match for an
\* empty query (des_cur None).  For a non-empty query against an empty
\* train set (des_prev None) the call is outside the matcher's contract:
\* it raises cv2.error or returns nothing, and both outcomes are kept.
\* Unpacking `for m, n in pair_matches` raises ValueError on a row of one.
AcceptedOutcomes(dt, des_c, des_p) ==
    IF des_c = <<>> THEN {[exc |-> NoExc, matches |-> <<>>]}
    ELSE IF des_p = <<>>
    THEN {[exc |-> Raise("cv2.error", "matcher"), matches |-> <<>>],
          [exc |-> NoExc, matches |-> <<>>]}
    ELSE IF dt = "sift"
    THEN LET pair_matches == knnMatch(des_c, des_p)
         IN  IF \E i \in 1..Len(pair_matches) : Len(pair_matches[i]) # 2
             THEN {[exc |-> Raise("ValueError", "not enough values to unpack"),
                    matches |-> <<>>]}
             ELSE {[exc |-> NoExc, matches |-> FilterPairs(pair_matches)]}
    ELSE {[exc |-> NoExc, matches |-> bfMatch(des_c, des_p)]}

\* a variant of match that measures des_cur before matching: len(None) raises
MatchLenFirst(dt, des_c, des_p) ==
    IF des_c = <<>>
    THEN {[exc |-> Raise("TypeError", "object of type 'NoneType' has no len()"),
           matches |-> <<>>]}
    ELSE {[exc |-> o.exc, matches |-> SortTruncate(o.matches)] :
              o \in AcceptedOutcomes(dt, des_c, des_p)}

\* VideMosaic.match(des_cur, des_prev): the set of its possible outcomes
match(dt, des_c, des_p) ==
    {[exc |-> o.exc, matches |-> SortTruncate(o.matches)] :
        o \in AcceptedOutcomes(dt, des_c, des_p)}

----------------------------------------------------------------------------
(* findHomography: motion classification and transform estimation *)

RECURSIVE PointsOf(_, _, _)
\* [kp[m.queryIdx].pt for m in matches] (side "q") or trainIdx (side "t")
PointsOf(kp, ms, side) ==
    IF ms = <<>> THEN <<>>
    ELSE <<kp[IF side = "q" THEN Head(ms).queryIdx ELSE Head(ms).trainIdx]>>
         \o PointsOf(kp, Tail(ms), side)

\* np.mean(image_2_points - image_1_points, axis=0) as the sums (sx, sy)
\* over n points: dx = sx / n, dy = sy / n
MeanDisplacement(pts1, pts2) ==
    [sx |-> SumSeq([i \in 1..Len(pts1) |-> pts2[i][1] - pts1[i][1]]),
     sy |-> SumSeq([i \in 1..Len(pts1) |-> pts2[i][2] - pts1[i][2]]),
     n  |-> Len(pts1)]

\* a variant of the classification that compares with >= instead of >
ClassifyInclusive(sx, sy) ==
    IF MotionDen * Abs(sx) >= MotionNum * Abs(sy) THEN "Horizontal"
    ELSE IF MotionDen * Abs(sy) >= MotionNum * Abs(sx) THEN "Vertical"
    ELSE "Complex"

\* the if / elif / else on abs(dx) > abs(dy) * 1.5; dx and dy share the
\* denominator n > 0, so the comparison is made on the sums
Classify(sx, sy) ==
    IF MotionDen * Abs(sx) > MotionNum * Abs(sy) THEN "Horizontal"
    ELSE IF MotionDen * Abs(sy) > MotionNum * Abs(sx) THEN "Vertical"
    ELSE "Complex"

\* which fit each branch calls
EstimatorFor(m) ==
    IF m = "Complex" THEN "findHomography" ELSE "estimateAffine2D"

\* what the fit returns: None (<< >>) when it finds no solution, else a
\* 2x3 matrix from estimateAffine2D and a 3x3 one from findHomography.
\* `fit` is the 3x3 form of the solution the robust fit settles on.
FitResult(est, fit) ==
    IF fit = <<>> THEN <<>>
    ELSE IF est = "estimateAffine2D" THEN <<fit[1], fit[2]>>
    ELSE fit

\* a variant that returns the fit as it is
NoPromote(M) == M

\* lines 104-105: np.vstack([transform_matrix, [0, 0, 1]]) on a 2x3 matrix
Promote(M) == IF Shape(M) = <<2, 3>> THEN Append(M, <<0, 0, 1>>) ELSE M

\* VideMosaic.findHomography(image_1_kp, image_2_kp, matches), with the
\* outcome `fit` of the robust fit it calls
findHomography(image_1_kp, image_2_kp, ms, fit) ==
    LET image_1_points == PointsOf(image_1_kp, ms, "q")
        image_2_points == PointsOf(image_2_kp, ms, "t")
        d   == MeanDisplacement(image_1_points, image_2_points)
        m   == Classify(d.sx, d.sy)
        est == EstimatorFor(m)
        transform_matrix == FitResult(est, fit)
    IN  IF transform_matrix = <<>>
        THEN \* None.shape
             [exc |-> Raise("AttributeError", "'NoneType' object has no attribute 'shape'"),
              motion |-> m, estimator |-> est, transform_matrix |-> <<>>]
        ELSE [exc |-> NoExc, motion |-> m, estimator |-> est,
              transform_matrix |-> Promote(transform_matrix)]

\* the solutions the robust fit may settle on in a run: integer affine maps
\* of determinant +-1, which resample without interpolation
SwapXY == <<<<0, 1, 0>>, <<1, 0, 0>>, <<0, 0, 1>>>>
FitSolutions == {Translation(1, 0), SwapXY}
FitOutcomes == {<<>>} \cup FitSolutions

----------------------------------------------------------------------------
(* warp and merge *)

ZeroPixel(channels) == [k \in 1..channels |-> 0]

\* cv2.warpPerspective / cv2.warpAffine(img, M, (cols, rows), INTER_LINEAR)
\* for an integer affine M of determinant +-1: the destination pixel (x, y)
\* is the source pixel that M maps to it, and 0 (the constant border) when
\* there is none
Resample(img, M, rows, cols) ==
    [r \in 1..rows |-> [c \in 1..cols |->
        LET src == {q \in (0..(Len(img[1]) - 1)) \X (0..(Len(img) - 1)) :
                       /\ M[1][1] * q[1] + M[1][2] * q[2] + M[1][3] = c - 1
                       /\ M[2][1] * q[1] + M[2][2] * q[2] + M[2][3] = r - 1}
        IN  IF src = {} THEN ZeroPixel(Len(img[1][1]))
            ELSE LET q == CHOOSE q \in src : TRUE IN img[q[2] + 1][q[1] + 1]]]

\* the branch of warp
WarpBranch(Hm) == IF Shape(Hm) = <<2, 3>> THEN "warpAffine" ELSE "warpPerspective"

\* self.output_img[warped_img > 0] = warped_img[warped_img > 0]: the mask
\* warped_img > 0 has one entry per sample (row, column, channel)
Merge(canvas, warped) ==
    [r \in 1..Len(canvas) |-> [c \in 1..Len(canvas[1]) |->
        [k \in 1..Len(canvas[r][c]) |->
            IF warped[r][c][k] > 0 THEN warped[r][c][k] ELSE canvas[r][c][k]]]]

----------------------------------------------------------------------------
(* __init__ *)

\* int(output_height_times * first_image.shape[0]), the multiplier in tenths
CanvasDim(times, n) == TruncDiv(times * n, Tenths)

\* int(self.output_img.shape[0] / 1 - first_image.shape[0] / 1)
WOffset(rows, h) == TruncDiv(rows - h, 1)

\* a variant that halves nothing
HOffsetWhole(cols, w) == TruncDiv(cols - w, 1)

\* int(self.output_img.shape[1] / 2 - first_image.shape[1] / 2)
HOffset(cols, w) == TruncDiv(cols - w, 2)

\* self.output_img[w_offset:w_offset+h, h_offset:h_offset+w, :] = first_image
SeedCanvas(img, rows, cols, woff, hoff) ==
    [r \in 1..rows |-> [c \in 1..cols |->
        IF /\ r - woff \in 1..Len(img)
           /\ c - hoff \in 1..Len(img[1])
        THEN img[r - woff][c - hoff]
        ELSE ZeroPixel(Len(img[1][1]))]]

\* np.eye(3) with [0, 2] = h_offset and [1, 2] = w_offset
InitialPose(woff, hoff) ==
    [Eye3 EXCEPT ![1][3] = hoff, ![2][3] = woff]

----------------------------------------------------------------------------
(* The run: main() constructing a VideMosaic and feeding it frames *)

NoArgs == [call |-> "none"]

Init ==
    /\ status = "uninit"
    /\ detector_type = "none"
    /\ frame_prev = NoFrame /\ kp_prev = <<>> /\ des_prev = <<>>
    /\ frame_cur = NoFrame /\ kp_cur = <<>> /\ des_cur = <<>>
    /\ output_img = <<>>
    /\ w_offset = 0 /\ h_offset = 0
    /\ H_old = <<>> /\ H = <<>>
    /\ matches = <<>>
    /\ warped_img = <<>>
    /\ last_warp = "none"
    /\ motion = "none" /\ estimator = "none"
    /\ exc = NoExc
    /\ args = NoArgs
    /\ log = <<>>

\* VideMosaic(first_image, output_height_times, output_width_times,
\* detector_type): process_first_frame, then the canvas and the pose
Construct(first_image, height_times, width_times, dt) ==
    LET feat == detectAndCompute(first_image)
        h    == Len(first_image.img)
        w    == Len(first_image.img[1])
        rows == CanvasDim(height_times, h)
        cols == CanvasDim(width_times, w)
        woff == WOffset(rows, h)
        hoff == HOffset(cols, w)
    IN  /\ status = "uninit"
        /\ status' = "running"
        /\ detector_type' = dt
        /\ frame_prev' = first_image
        /\ kp_prev' = feat.kp
        /\ des_prev' = feat.des
        /\ output_img' = SeedCanvas(first_image.img, rows, cols, woff, hoff)
        /\ w_offset' = woff
        /\ h_offset' = hoff
        /\ H_old' = InitialPose(woff, hoff)
        /\ args' = [call |-> "__init__", first_image |-> first_image,
                    output_height_times |-> height_times,
                    output_width_times |-> width_times, detector_type |-> dt]
        /\ UNCHANGED <<frame_cur, kp_cur, des_cur, H, matches, warped_img,
                       last_warp, motion, estimator, exc, log>>

\* a variant of the threshold that lets three matches through
TooFewMatchesBelow3(ms) == Len(ms) < MinMatches - 1

\* len(matches) < 4
TooFewMatches(ms) == Len(ms) < MinMatches

\* a variant that multiplies the other way round
ChainPoseLeft(Hold, T) == MatMul(T, Hold)

\* np.matmul(self.H_old, self.H)
ChainPose(Hold, T) == MatMul(Hold, T)

\* a variant that rolls the current frame over before the match check
RollsOverUnlessRaised(result) == result # "raised"

\* lines 76-77 are reached only by a frame that was warped
RollsOver(result) == result = "applied"

\* how process_frame ends for matcher outcome mo and fit outcome fh
FrameResult(mo, fh) ==
    IF mo.exc # NoExc THEN "raised"
    ELSE IF TooFewMatches(mo.matches) THEN "skipped"
    ELSE IF fh.exc # NoExc THEN "raised"
    ELSE IF ~MatMulConforms(H_old, fh.transform_matrix) THEN "raised"
    ELSE "applied"

\* video_mosaic.process_frame(frame_cur), with the outcome mo of match and
\* the solution `fit` of the robust fit
process_frame(frame, mo, fit) ==
    LET feat   == detectAndCompute(frame)
        ms     == mo.matches
        enough == mo.exc = NoExc /\ ~TooFewMatches(ms)
        fh     == IF enough THEN findHomography(feat.kp, kp_prev, ms, fit)
                  ELSE [exc |-> NoExc, motion |-> motion, estimator |-> estimator,
                        transform_matrix |-> <<>>]
        result == FrameResult(mo, fh)
        T      == fh.transform_matrix
        fitted == enough /\ fh.exc = NoExc
        Hnew   == IF result = "applied" THEN ChainPose(H_old, T) ELSE <<>>
        warped == IF result = "applied"
                  THEN Resample(frame.img, Hnew, Len(output_img), Len(output_img[1]))
                  ELSE <<>>
    IN  /\ frame_cur' = frame
        /\ kp_cur' = feat.kp
        /\ des_cur' = feat.des
        /\ matches' = ms
        /\ motion' = fh.motion
        /\ estimator' = fh.estimator
        /\ H' = IF result = "applied" THEN Hnew ELSE IF fitted THEN T ELSE H
        /\ warped_img' = IF result = "applied" THEN warped ELSE warped_img
        /\ last_warp' = IF result = "applied" THEN WarpBranch(Hnew) ELSE last_warp
        /\ output_img' = IF result = "applied" THEN Merge(output_img, warped)
                         ELSE output_img
        /\ H_old' = IF result = "applied" THEN Hnew ELSE H_old
        /\ frame_prev' = IF RollsOver(result) THEN frame ELSE frame_prev
        /\ kp_prev' = IF RollsOver(result) THEN feat.kp ELSE kp_prev
        /\ des_prev' = IF RollsOver(result) THEN feat.des ELSE des_prev
        /\ exc' = IF result # "raised" THEN NoExc
                  ELSE IF mo.exc # NoExc THEN mo.exc
                  ELSE IF fh.exc # NoExc THEN fh.exc
                  ELSE Raise("ValueError", "matmul: mismatch in core dimension")
        /\ status' = IF result = "raised" THEN "raised" ELSE "running"
        /\ log' = Append(log, [id |-> frame.id, result |-> result,
                               nmatches |-> IF mo.exc = NoExc THEN Len(ms) ELSE -1,
                               fit |-> IF enough THEN fit ELSE <<>>,
                               T |-> IF result = "applied" THEN T ELSE <<>>])
        /\ UNCHANGED <<detector_type, w_offset, h_offset, args>>

\* the robust fit runs only for a frame that has enough matches
FitsTried(mo) ==
    IF mo.exc = NoExc /\ ~TooFewMatches(mo.matches) THEN FitOutcomes ELSE {<<>>}

\* main() reads the first frame: VideMosaic(frame_cur, detector_type=...)
\* with the default multipliers
ReadFirstFrame ==
    \E first_image \in FirstFrames, dt \in {"sift", "orb"} :
        Construct(first_image, DefaultHeightTimes, DefaultWidthTimes, dt)

\* main() reads a later frame
ReadFrame ==
    /\ status = "running"
    /\ Len(log) < MaxFrames
    /\ \E frame \in NextFrames :
        \E mo \in match(detector_type, detectAndCompute(frame).des, des_prev) :
            \E fit \in FitsTried(mo) :
                process_frame(frame, mo, fit)

\* the stream ends (or 'q' is pressed): the mosaic is written
EndOfStream ==
    /\ status = "running"
    /\ status' = "finished"
    /\ UNCHANGED <<detector_type, frame_prev, kp_prev, des_prev, frame_cur, kp_cur,
                   des_cur, output_img, w_offset, h_offset, H_old, H, matches,
                   warped_img, last_warp, motion, estimator, exc, args, log>>

Next == ReadFirstFrame \/ ReadFrame \/ EndOfStream

Spec == Init /\ [][Next]_vars

----------------------------------------------------------------------------
(* Properties of a run (checked under Spec) *)

Last(s) == s[Len(s)]

\* a step of process_frame: one more frame in the log
FrameStep == Len(log') = Len(log) + 1

AppliedIn(l) == {i \in 1..Len(l) : l[i].result = "applied"}

PrevState == <<frame_prev, kp_prev, des_prev>>

\* C1: a frame whose match list has fewer than 4 entries makes process_frame
\* return normally and leaves H_old, output_img, kp_prev, des_prev and
\* frame_prev as they were, whatever frames came before.
C1_SkipLeavesStateUnchanged ==
    [][(FrameStep /\ Last(log').nmatches \in 0..(MinMatches - 1))
          => /\ exc' = NoExc
             /\ status' = "running"
             /\ UNCHANGED <<H_old, output_img, kp_prev, des_prev, frame_prev>>]_vars

\* C1 witness: a frame with exactly 3 matches was skipped after another
\* frame had been applied
C1_Witness ==
    /\ Len(log) >= 2
    /\ Last(log).nmatches = 3
    /\ Last(log).result = "skipped"
    /\ AppliedIn(log) # {}

\* C2: a frame with no keypoint is skipped without an exception, leaves the
\* pose, the canvas and the previous-frame state unchanged and the run goes
\* on, with either detector.
C2_ZeroKeypointsSkipped ==
    [][(FrameStep /\ kp_cur' = <<>>)
          => /\ exc' = NoExc
             /\ status' = "running"
             /\ Last(log').result = "skipped"
             /\ UNCHANGED <<H_old, output_img, kp_prev, des_prev, frame_prev>>]_vars

\* C2 witness: with the mutual-nearest detector, a frame without keypoints
\* was skipped after a frame had been applied, and the run is still going
C2_Witness ==
    /\ detector_type = "orb"
    /\ Len(log) >= 2
    /\ kp_cur = <<>> /\ des_cur = <<>>
    /\ Last(log).result = "skipped"
    /\ AppliedIn(log) # {}
    /\ status = "running"

\* C3 (as claimed): when the fit finds no solution for a frame with at least
\* 4 matches, the run is aborted by a failure that carries the frame's index
\* and the stage "estimation".
C3_FitFailureIsTyped ==
    (log # <<>> /\ Last(log).nmatches >= MinMatches /\ Last(log).fit = <<>>)
        => /\ status = "raised"
           /\ "frame_index" \in DOMAIN exc
           /\ "stage" \in DOMAIN exc
           /\ exc.frame_index = Len(log)
           /\ exc.stage = "estimation"

\* the product T_i . (T_i+1 . ( ... . T_k)) of the applied frames' transforms
RECURSIVE IncrementalProduct(_)
IncrementalProduct(l) ==
    IF l = <<>> THEN Eye3
    ELSE IF Head(l).result = "applied"
         THEN MatMul(Head(l).T, IncrementalProduct(Tail(l)))
         ELSE IncrementalProduct(Tail(l))

\* C4: after any sequence of frames the cumulative pose is H0 . T1 . ... . Tk,
\* H0 the initial offset pose and T1..Tk the transforms of the applied
\* frames in arrival order; skipped frames contribute nothing.
C4_PoseIsOrderedProduct ==
    status # "uninit"
        => H_old = MatMul(<<<<1, 0, h_offset>>, <<0, 1, w_offset>>, <<0, 0, 1>>>>,
                          IncrementalProduct(log))

\* C4 witness: two frames applied with transforms that do not commute, and
\* a skipped frame between them
C4_Witness ==
    /\ Len(log) = 3
    /\ log[1].result = "applied" /\ log[2].result = "skipped"
    /\ log[3].result = "applied"
    /\ MatMul(log[1].T, log[3].T) # MatMul(log[3].T, log[1].T)

\* C5 (as claimed): after a merge every canvas pixel is the warped pixel,
\* all channels, where the warped pixel is non-zero, and its old value where
\* the warped pixel is zero.
C5_MergeIsPerPixel ==
    [][(FrameStep /\ Last(log').result = "applied")
          => \A r \in 1..Len(output_img) : \A c \in 1..Len(output_img[1]) :
                output_img'[r][c] =
                    IF warped_img'[r][c] # ZeroPixel(Len(warped_img'[r][c]))
                    THEN warped_img'[r][c]
                    ELSE output_img[r][c]]_vars

\* the frame the previous-frame state must describe: the last applied one,
\* or the first frame
LastAppliedId(l, first_id) ==
    IF AppliedIn(l) = {} THEN first_id
    ELSE l[CHOOSE i \in AppliedIn(l) : \A j \in AppliedIn(l) : j <= i].id

\* C9: the previous-frame state is that of the most recently applied frame
\* (the first frame if none was applied); it is replaced by the current
\* frame's exactly in a step that applied its frame, together with the pose,
\* and in no other step.
C9_OneFrameHistory ==
    [][/\ status' # "uninit"
          => /\ frame_prev'.id = LastAppliedId(log', args'.first_image.id)
             /\ kp_prev' = detectAndCompute(frame_prev').kp
             /\ des_prev' = detectAndCompute(frame_prev').des
       /\ (FrameStep /\ Last(log').result = "applied")
          => /\ PrevState' = <<frame_cur', kp_cur', des_cur'>>
             /\ H_old' = H'
       /\ (FrameStep /\ Last(log').result # "applied")
          => UNCHANGED <<PrevState, H_old>>]_vars

\* C9 witness: a frame was applied, the next skipped, and a third applied:
\* the third was matched against the first of them, not the skipped one
C9_Witness ==
    /\ Len(log) = 3
    /\ log[1].result = "applied" /\ log[2].result = "skipped"
    /\ log[3].result = "applied"
    /\ log[2].id # log[1].id
    /\ frame_prev.id = log[3].id

----------------------------------------------------------------------------
(* Seeding on its own: __init__ over first frames of several shapes and    *)
(* several multipliers (SpecSeed)                                          *)

\* multipliers, in tenths: 1.2, 1.5, 2.5, 3
Multipliers == {12, 15, 25, 30}

\* an h x w first frame of 3 channels with distinct pixels
SeedFrame(h, w) ==
    [id |-> 7,
     img |-> [r \in 1..h |-> [c \in 1..w |-> <<r, c, (r + c) % 2>>]],
     kp |-> <<<<0, 0>>>>, des |-> <<10>>]

SeedConstruct ==
    \E h \in 1..MaxDim, w \in 1..MaxDim, ht \in Multipliers, wt \in Multipliers,
       dt \in {"sift", "orb"} :
        Construct(SeedFrame(h, w), ht, wt, dt)

SpecSeed == Init /\ [][SeedConstruct]_vars

\* C6 (as claimed): the canvas is exactly (heightMult*h) x (widthMult*w), the
\* first frame sits at vertical offset canvasHeight - h and horizontal offset
\* exactly (canvasWidth - w)/2, every other pixel is zero, and the pose is
\* the identity translated by (horizontal offset, vertical offset).
C6_SeedingExact ==
    status = "running" =>
        LET img  == args.first_image.img
            h    == Len(img)
            w    == Len(img[1])
            rows == Len(output_img)
            cols == Len(output_img[1])
        IN  /\ 10 * rows = args.output_height_times * h
            /\ 10 * cols = args.output_width_times * w
            /\ w_offset = rows - h
            /\ 2 * h_offset = cols - w
            /\ \A r \in 1..rows : \A c \in 1..cols :
                  output_img[r][c] =
                      IF r \in (w_offset + 1)..(w_offset + h)
                         /\ c \in (h_offset + 1)..(h_offset + w)
                      THEN img[r - w_offset][c - h_offset]
                      ELSE <<0, 0, 0>>
            /\ H_old = <<<<1, 0, h_offset>>, <<0, 1, w_offset>>, <<0, 0, 1>>>>

\* C6 (amended): as claimed, with the canvas height and width the integer
\* parts of heightMult*h and widthMult*w, and the horizontal offset the
\* integer part of (canvasWidth - w)/2.
C6_SeedingTruncated ==
    status = "running" =>
        LET img  == args.first_image.img
            h    == Len(img)
            w    == Len(img[1])
            rows == Len(output_img)
            cols == Len(output_img[1])
        IN  /\ 10 * rows <= args.output_height_times * h
            /\ args.output_height_times * h < 10 * (rows + 1)
            /\ 10 * cols <= args.output_width_times * w
            /\ args.output_width_times * w < 10 * (cols + 1)
            /\ w_offset = rows - h
            /\ 2 * h_offset <= cols - w
            /\ cols - w < 2 * h_offset + 2
            /\ \A r \in 1..rows : \A c \in 1..cols :
                  output_img[r][c] =
                      IF r \in (w_offset + 1)..(w_offset + h)
                         /\ c \in (h_offset + 1)..(h_offset + w)
                      THEN img[r - w_offset][c - h_offset]
                      ELSE <<0, 0, 0>>
            /\ H_old = <<<<1, 0, h_offset>>, <<0, 1, w_offset>>, <<0, 0, 1>>>>
            /\ frame_prev = args.first_image

\* C6 witness: a seeded canvas whose height and width were both truncated
\* and whose frame sits at a positive horizontal offset
C6_Witness ==
    /\ status = "running"
    /\ 10 * Len(output_img) < args.output_height_times * Len(args.first_image.img)
    /\ 10 * Len(output_img[1]) < args.output_width_times * Len(args.first_image.img[1])
    /\ h_offset > 0
    /\ w_offset > 0

----------------------------------------------------------------------------
(* match on its own, over descriptor lists longer than the cap (SpecMatch) *)

\* n train descriptors 20, 40, ... and n query descriptors, the i-th at
\* distance (a*i + b) % 10 above the i-th train descriptor
TrainDescriptors(n) == [i \in 1..n |-> 20 * i]
QueryDescriptors(n, a, b) == [i \in 1..n |-> 20 * i + ((a * i + b) % 10)]

InitMatch ==
    /\ status = "uninit"
    /\ detector_type = "none"
    /\ frame_prev = NoFrame /\ kp_prev = <<>> /\ des_prev = <<>>
    /\ frame_cur = NoFrame /\ kp_cur = <<>> /\ des_cur = <<>>
    /\ output_img = <<>>
    /\ w_offset = 0 /\ h_offset = 0
    /\ H_old = <<>> /\ H = <<>>
    /\ matches = <<>>
    /\ warped_img = <<>>
    /\ last_warp = "none"
    /\ motion = "none" /\ estimator = "none"
    /\ exc = NoExc
    /\ log = <<>>
    /\ \E n \in 0..MaxMatchLen, a \in 0..3, b \in 0..1, dt \in {"sift", "orb"} :
          args = [call |-> "match", detector_type |-> dt,
                  des_cur |-> QueryDescriptors(n, a, b),
                  des_prev |-> TrainDescriptors(n)]

\* self.match(des_cur, des_prev)
CallMatch ==
    /\ status = "uninit"
    /\ \E mo \in match(args.detector_type, args.des_cur, args.des_prev) :
          /\ matches' = mo.matches
          /\ exc' = mo.exc
          /\ status' = IF mo.exc = NoExc THEN "returned" ELSE "raised"
    /\ detector_type' = args.detector_type
    /\ UNCHANGED <<frame_prev, kp_prev, des_prev, frame_cur, kp_cur, des_cur,
                   output_img, w_offset, h_offset, H_old, H, warped_img, last_warp,
                   motion, estimator, args, log>>

SpecMatch == InitMatch /\ [][CallMatch]_vars

Range(s) == {s[i] : i \in 1..Len(s)}

\* the accepted matches of the call, before sorting
AcceptedOfCall ==
    LET o == CHOOSE o \in AcceptedOutcomes(args.detector_type, args.des_cur,
                                           args.des_prev) : o.exc = NoExc
    IN  o.matches

\* C7: match returns the accepted matches sorted ascending by distance; all
\* of them when there are at most 30, and otherwise exactly 30 of them, none
\* of which is farther than any match left out.
C7_SortedLowest30 ==
    status = "returned" =>
        LET acc == AcceptedOfCall
        IN  /\ \A i \in 1..Len(matches) : \A j \in i..Len(matches) :
                  matches[i].distance <= matches[j].distance
            /\ Len(matches) = IF Len(acc) > 30 THEN 30 ELSE Len(acc)
            /\ Cardinality(Range(matches)) = Len(matches)
            /\ Range(matches) \subseteq Range(acc)
            /\ \A x \in Range(acc) \ Range(matches) : \A y \in Range(matches) :
                  y.distance <= x.distance

\* C7 witness: more than 30 accepted matches, not in order of distance, of
\* which 30 were returned
C7_Witness ==
    /\ status = "returned"
    /\ Len(matches) = 30
    /\ LET acc == AcceptedOfCall
       IN  /\ Len(acc) > 30
           /\ \E i \in 1..Len(acc) : \E j \in i..Len(acc) :
                 acc[i].distance > acc[j].distance

----------------------------------------------------------------------------
(* findHomography on its own, over mean displacements (SpecEstimate) *)

InitEstimate ==
    /\ status = "uninit"
    /\ detector_type = "none"
    /\ frame_prev = NoFrame /\ kp_prev = <<>> /\ des_prev = <<>>
    /\ frame_cur = NoFrame /\ kp_cur = <<>> /\ des_cur = <<>>
    /\ output_img = <<>>
    /\ w_offset = 0 /\ h_offset = 0
    /\ H_old = <<>> /\ H = <<>>
    /\ matches = <<>>
    /\ warped_img = <<>>
    /\ last_warp = "none"
    /\ motion = "none" /\ estimator = "none"
    /\ exc = NoExc
    /\ log = <<>>
    /\ \E x \in (-MaxCoord)..MaxCoord, y \in (-MaxCoord)..MaxCoord, c \in 0..1,
          n \in 1..2, fit \in {<<>>, Translation(1, 0)} :
          args = [call |-> "findHomography",
                  image_1_kp |-> SubSeq(<<<<c, c>>, <<0, 0>>>>, 1, n),
                  image_2_kp |-> SubSeq(<<<<x, y>>, <<1, -1>>>>, 1, n),
                  matches |-> [i \in 1..n |->
                                  [queryIdx |-> i, trainIdx |-> i, distance |-> 0]],
                  fit |-> fit]

\* VideMosaic.findHomography(image_1_kp, image_2_kp, matches)
CallFindHomography ==
    LET out == findHomography(args.image_1_kp, args.image_2_kp, args.matches, args.fit)
    IN  /\ status = "uninit"
        /\ motion' = out.motion
        /\ estimator' = out.estimator
        /\ H' = out.transform_matrix
        /\ exc' = out.exc
        /\ status' = IF out.exc = NoExc THEN "returned" ELSE "raised"
        /\ UNCHANGED <<detector_type, frame_prev, kp_prev, des_prev, frame_cur,
                       kp_cur, des_cur, output_img, w_offset, h_offset, H_old,
                       matches, warped_img, last_warp, args, log>>

SpecEstimate == InitEstimate /\ [][CallFindHomography]_vars

\* the sums of (previous point - current point) over the call's matches
DisplacementSum(k) ==
    SumSeq([i \in 1..Len(args.matches) |->
               args.image_2_kp[args.matches[i].trainIdx][k]
                   - args.image_1_kp[args.matches[i].queryIdx][k]])

\* C8: with (dx, dy) the mean of previous - current, the motion is horizontal
\* iff |dx| > 1.5|dy|, else vertical iff |dy| > 1.5|dx|, else complex; the
\* affine fit serves the first two and the projective fit the third;
\* (10,5) is horizontal, (10,7) and (0,0) are complex.  (dx, dy) = (sx, sy)/n.
C8_MotionClassification ==
    status # "uninit" =>
        LET sx == DisplacementSum(1)
            sy == DisplacementSum(2)
            n  == Len(args.matches)
            horizontal == 2 * Abs(sx) > 3 * Abs(sy)
            vertical   == ~horizontal /\ 2 * Abs(sy) > 3 * Abs(sx)
        IN  /\ ~(2 * Abs(sx) > 3 * Abs(sy) /\ 2 * Abs(sy) > 3 * Abs(sx))
            /\ motion = "Horizontal" <=> horizontal
            /\ motion = "Vertical" <=> vertical
            /\ motion = "Complex" <=> (~horizontal /\ ~vertical)
            /\ estimator = "estimateAffine2D" <=> (horizontal \/ vertical)
            /\ estimator = "findHomography" <=> (~horizontal /\ ~vertical)
            /\ (sx = 10 * n /\ sy = 5 * n) => motion = "Horizontal"
            /\ (sx = 10 * n /\ sy = 7 * n) => motion = "Complex"
            /\ (sx = 0 /\ sy = 0) => motion = "Complex"

\* C8 witness: a call whose mean displacement is (10, 5) was classified as
\* horizontal and fitted by the affine estimator
C8_Witness ==
    /\ status = "returned"
    /\ Len(args.matches) = 1
    /\ DisplacementSum(1) = 10 /\ DisplacementSum(2) = 5
    /\ motion = "Horizontal"
    /\ estimator = "estimateAffine2D"

====
